---- MODULE Spec2Model ----
(***************************************************************************)
(* TrailMemo API: the request layer (gin handlers), the memo and user      *)
(* repositories (PostgreSQL tables users and memos of 001_init.sql) and    *)
(* the Firebase object store, as a state machine.  Every handler is cut    *)
(* into steps at its calls to the database and to the object store, so     *)
(* that concurrent requests interleave exactly where the code lets them.   *)
(*                                                                         *)
(* A Go pointer / SQL NULL is modelled as a set with at most one element:  *)
(* {} is nil / NULL, {v} is a present value v.                             *)
(***************************************************************************)
EXTENDS Integers, Sequences, FiniteSets, TLC

\* ------------------------------------------------------------------------
\* Bounds of the model
\* ------------------------------------------------------------------------
MaxRequests == 2
MaxTime == 1

\* ------------------------------------------------------------------------
\* Input domains
\* ------------------------------------------------------------------------
Reqs == {"r1", "r2"}
UserIds == {"u1", "u2"}
BadCreds == {"missing", "malformed", "rejected"}

\* bodies of POST /auth/register
Profiles ==
  {[display_name |-> "", department |-> "d1"],
   [display_name |-> "n1", department |-> "d1"],
   [display_name |-> "n2", department |-> "d2"]}

\* multipart forms of POST /memos: parsed is the outcome of
\* ParseMultipartForm, audio the uploaded file (none, within the size limit,
\* over it)
BareForm ==
  [text |-> "t1", duration_seconds |-> 30, latitude |-> {}, longitude |-> {},
   location_accuracy |-> {}, park_name |-> {}, title |-> {}]
Forms ==
  {BareForm,
   [BareForm EXCEPT !.latitude = {45}, !.longitude = {111}, !.location_accuracy = {5},
                    !.park_name = {"p1"}, !.title = {"T1"}],
   [BareForm EXCEPT !.latitude = {45}],
   [BareForm EXCEPT !.text = ""],
   [BareForm EXCEPT !.duration_seconds = 0]}
CreateInputs ==
  {[parsed |-> TRUE, audio |-> a, form |-> f] : a \in {"none", "ok"}, f \in Forms}
  \cup {[parsed |-> FALSE, audio |-> "none", form |-> BareForm],
        [parsed |-> TRUE, audio |-> "big", form |-> BareForm]}

\* ids in the path of PUT and DELETE /memos/:id; BadId is a string that
\* uuid.Parse rejects
BadId == 0
MemoIdInputs == {BadId, 1, 2}

\* JSON bodies of PUT /memos/:id; bound is the outcome of ShouldBindJSON
NoBody == [title |-> {}, text |-> {}, park_name |-> {}]
UpdateInputs ==
  {[bound |-> TRUE, body |-> b] :
     b \in {NoBody,
            [title |-> {"T2"}, text |-> {}, park_name |-> {}],
            [title |-> {}, text |-> {"t2"}, park_name |-> {"p2"}]}}
  \cup {[bound |-> FALSE, body |-> NoBody]}

\* ------------------------------------------------------------------------
\* Program constants
\* ------------------------------------------------------------------------
Bucket == "bkt"
StorageHost == "https://storage.googleapis.com/"
Placeholder == "https://placeholder.com/audio.m4a"
AudioExt == ".m4a"

VARIABLES users, memos, blobs, req, last, started, nextMemo, nextBlob

vars == <<users, memos, blobs, req, last, started, nextMemo, nextBlob>>

\* ------------------------------------------------------------------------
\* Responses: gin.H{"error": {"code": ...}} with its HTTP status
\* ------------------------------------------------------------------------
Resp(status, code, body) == [status |-> status, code |-> code, body |-> body]

ValidationError == Resp(400, "VALIDATION_ERROR", {})
TooLarge == Resp(413, "VALIDATION_ERROR", {})
\* the middleware answering 403 in place of 401
AuthenticationErrorAs403 == Resp(403, "AUTHENTICATION_ERROR", {})

AuthenticationError == Resp(401, "AUTHENTICATION_ERROR", {})

AuthorizationError == Resp(403, "AUTHORIZATION_ERROR", {})
NotFound == Resp(404, "NOT_FOUND", {})
Conflict == Resp(409, "CONFLICT", {})
InternalError == Resp(500, "INTERNAL_ERROR", {})

\* ------------------------------------------------------------------------
\* Request slots.  req[r] is a request in flight: its position (pc), its
\* inputs and the handler's local variables.  last is the request that
\* responded in the step just taken, with its response.
\* ------------------------------------------------------------------------
IdleReq ==
  [pc |-> "idle", kind |-> "none", uid |-> "", id |-> 0, arg |-> [none |-> TRUE],
   user |-> {}, memo |-> {}, audioURL |-> "",
   res |-> "none", blobres |-> "none", resp |-> {}]

\* A new request takes the first free slot (the slots are interchangeable).
Free(r) ==
  /\ req[r].pc = "idle"
  /\ started < MaxRequests
  /\ r = "r2" => req["r1"].pc # "idle"

\* c.JSON(status, ...) followed by return
Respond(r, q, response) ==
  /\ req' = [req EXCEPT ![r] = IdleReq]
  /\ last' = {[q EXCEPT !.pc = "done", !.resp = {response}]}

\* the handler goes on to its next call
Goto(r, q, pc) ==
  /\ req' = [req EXCEPT ![r] = [q EXCEPT !.pc = pc]]
  /\ last' = {}

\* CURRENT_TIMESTAMP of a statement: the server's wall clock at the start of
\* the statement, converted to the session's time zone and stored in a
\* TIMESTAMP column without time zone.  Nothing in the schema or the
\* repository orders the stored readings: statements of overlapping requests
\* are applied in any order, the local time repeats an hour when daylight
\* saving ends, and the wall clock can be stepped back.  A reading is
\* therefore any value, whatever was stored before.
Clock(t) == t \in 0..MaxTime

\* ------------------------------------------------------------------------
\* Identity verifier (Firebase Auth)
\* ------------------------------------------------------------------------
FirebaseEmail(uid) == IF uid = "u1" THEN "u1@example.com" ELSE "u2@example.com"

\* ------------------------------------------------------------------------
\* User repository
\* ------------------------------------------------------------------------
\* GenerateUserColor: "#rrggbb" from the MD5 digest of the user id (hue from
\* hex digits 1-4 mod 360, saturation 60 + digits 5-6 mod 21, lightness
\* 45 + digits 7-8 mod 21, converted from HSL), tabulated for the user ids
\* of the model
GenerateUserColor(userID) ==
  CASE userID = "u1" -> "#3de1bd"
    [] userID = "u2" -> "#9738d6"
    [] OTHER -> "#000000"

\* the zero value of models.User.Color: no statement of the repository
\* assigns, inserts or selects the color column
NoColor == ""

UserGetByID(userID) == IF userID \in DOMAIN users THEN {users[userID]} ELSE {}

\* INSERT INTO users: user_id is the primary key, email is UNIQUE.
UserInsertAllowed(user) ==
  /\ user.user_id \notin DOMAIN users
  /\ \A u \in DOMAIN users : users[u].email # user.email

UserCreate(user, t) ==
  [u \in DOMAIN users \cup {user.user_id} |->
     IF u = user.user_id THEN [user EXCEPT !.created_at = t] ELSE users[u]]

\* ------------------------------------------------------------------------
\* AuthMiddleware: a request without a verified credential ends 401 and no
\* handler runs.
\* ------------------------------------------------------------------------
\* the routes of the /api/v1 group
Routes ==
  {"Register", "GetMe", "Create", "List", "GetNearby", "Search", "GetByID",
   "Update", "Delete"}

AuthReject(r) ==
  /\ Free(r)
  /\ \E kind \in Routes, cred \in BadCreds :
       Respond(r, [IdleReq EXCEPT !.kind = kind, !.res = "unauthenticated"],
               AuthenticationError)
  /\ started' = started + 1
  /\ UNCHANGED <<users, memos, blobs, nextMemo, nextBlob>>

\* HealthHandler.Check: GET /health, registered without the middleware
HealthCheck(r) ==
  /\ Free(r)
  /\ Respond(r, [IdleReq EXCEPT !.kind = "Health"], Resp(200, "", {}))
  /\ started' = started + 1
  /\ UNCHANGED <<users, memos, blobs, nextMemo, nextBlob>>

\* AuthHandler.GetMe: the row of the authenticated user
GetMe(r) ==
  /\ Free(r)
  /\ \E uid \in UserIds, dbok \in BOOLEAN :
       LET q == [IdleReq EXCEPT !.kind = "GetMe", !.uid = uid]
           user == UserGetByID(uid)
       IN IF ~dbok THEN Respond(r, [q EXCEPT !.res = "readerr"], InternalError)
          ELSE IF user = {} THEN Respond(r, q, NotFound)
          ELSE Respond(r, [q EXCEPT !.user = user, !.res = "ok"], Resp(200, "", user))
  /\ started' = started + 1
  /\ UNCHANGED <<users, memos, blobs, nextMemo, nextBlob>>

\* ------------------------------------------------------------------------
\* AuthHandler.Register
\* ------------------------------------------------------------------------
\* the pre-check forgotten: every registration goes on to the insert
RegisterExistsNever(existingUser) == FALSE

RegisterExists(existingUser) == existingUser # {}

\* middleware, ShouldBindJSON and the existence pre-check userRepo.GetByID
RegisterCheck(r) ==
  /\ Free(r)
  /\ \E uid \in UserIds, profile \in Profiles, dbok \in BOOLEAN :
       LET q == [IdleReq EXCEPT !.kind = "Register", !.uid = uid, !.arg = profile]
           existingUser == UserGetByID(uid)
       IN IF profile.display_name = "" THEN Respond(r, q, ValidationError)
          ELSE IF ~dbok THEN Respond(r, [q EXCEPT !.res = "readerr"], InternalError)
          ELSE IF RegisterExists(existingUser)
               THEN Respond(r, [q EXCEPT !.user = existingUser], Conflict)
          ELSE Goto(r, [q EXCEPT !.user = existingUser], "reg_insert")
  /\ started' = started + 1
  /\ UNCHANGED <<users, memos, blobs, nextMemo, nextBlob>>

\* firebaseService.GetUserByUID, then userRepo.Create
RegisterInsert(r) ==
  /\ req[r].pc = "reg_insert"
  /\ \E fbok \in BOOLEAN, dbok \in BOOLEAN, t \in 0..MaxTime :
       /\ Clock(t)
       /\ LET q == req[r]
              user == [user_id |-> q.uid, email |-> FirebaseEmail(q.uid),
                       display_name |-> q.arg.display_name,
                       department |-> q.arg.department, color |-> NoColor,
                       created_at |-> 0]
          IN IF ~fbok
             THEN /\ Respond(r, [q EXCEPT !.res = "upstream"], InternalError)
                  /\ UNCHANGED users
             ELSE IF ~dbok
             THEN /\ Respond(r, [q EXCEPT !.res = "err"], InternalError)
                  /\ UNCHANGED users
             ELSE IF ~UserInsertAllowed(user)
             THEN /\ Respond(r, [q EXCEPT !.res = "unique"], InternalError)
                  /\ UNCHANGED users
             ELSE /\ users' = UserCreate(user, t)
                  /\ Respond(r, [q EXCEPT !.res = "ok"], Resp(201, "", {users'[q.uid]}))
  /\ UNCHANGED <<memos, blobs, started, nextMemo, nextBlob>>

\* ------------------------------------------------------------------------
\* Object store (Firebase Storage): blobs is the set of object names
\* ------------------------------------------------------------------------
ObjectName(userID, uuid) == "memos/" \o userID \o "/" \o ToString(uuid) \o AudioExt

\* an upload that returns no URL
UploadURLEmpty(fileName) == ""

\* fmt.Sprintf("https://storage.googleapis.com/%s/%s", fs.bucket, fileName)
UploadURL(fileName) == StorageHost \o Bucket \o "/" \o fileName

UrlPrefix == StorageHost \o Bucket \o "/"

\* the slice taken one character early
FilePathFromSlash(audioURL) == SubSeq(audioURL, Len(UrlPrefix), Len(audioURL))

\* filePath := audioURL[len(prefix):]
FilePath(audioURL) == SubSeq(audioURL, Len(UrlPrefix) + 1, Len(audioURL))

\* DeleteAudioFile: "invalid" is the length check, "err" a failed obj.Delete
\* (the object does not exist, or the storage call failed), "ok" a deletion.
DeleteAudioResult(audioURL, stok) ==
  IF Len(audioURL) <= Len(UrlPrefix) THEN "invalid"
  ELSE IF ~stok \/ FilePath(audioURL) \notin blobs THEN "err"
  ELSE "ok"

DeleteAudioFile(audioURL, stok) ==
  IF DeleteAudioResult(audioURL, stok) = "ok" THEN blobs \ {FilePath(audioURL)} ELSE blobs

\* ------------------------------------------------------------------------
\* Memo repository
\* ------------------------------------------------------------------------
MemoGetByID(memoID) == IF memoID \in DOMAIN memos THEN {memos[memoID]} ELSE {}

\* INSERT INTO memos: user_id REFERENCES users(user_id)
MemoInsertAllowed(memo) == memo.user_id \in DOMAIN users

\* gen_random_uuid(), created_at and updated_at DEFAULT CURRENT_TIMESTAMP
MemoCreate(memo, t) ==
  [m \in DOMAIN memos \cup {nextMemo} |->
     IF m = nextMemo
     THEN [memo EXCEPT !.memo_id = nextMemo, !.created_at = t, !.updated_at = t]
     ELSE memos[m]]

\* the updates map built by MemoHandler.Update from the non-nil fields
UpdatesMap(body) ==
  [f \in {g \in {"title", "text", "park_name"} : body[g] # {}} |-> body[f]]

Deref(p) == CHOOSE v \in p : TRUE

\* all three columns always in the SET list, an absent one written as NULL
UpdatedRowAllColumns(row, updates, t) ==
  [row EXCEPT
     !.title = IF "title" \in DOMAIN updates THEN updates["title"] ELSE {},
     !.text = IF "text" \in DOMAIN updates THEN Deref(updates["text"]) ELSE @,
     !.park_name = IF "park_name" \in DOMAIN updates THEN updates["park_name"] ELSE {},
     !.updated_at = t]

\* UPDATE memos SET <supplied columns> WHERE memo_id = $n, with the
\* BEFORE UPDATE trigger update_updated_at_column
UpdatedRow(row, updates, t) ==
  [row EXCEPT
     !.title = IF "title" \in DOMAIN updates THEN updates["title"] ELSE @,
     !.text = IF "text" \in DOMAIN updates THEN Deref(updates["text"]) ELSE @,
     !.park_name = IF "park_name" \in DOMAIN updates THEN updates["park_name"] ELSE @,
     !.updated_at = t]

MemoUpdate(memoID, updates, t) ==
  [m \in DOMAIN memos |-> IF m = memoID THEN UpdatedRow(memos[m], updates, t) ELSE memos[m]]

MemoDelete(memoID) == [m \in DOMAIN memos \ {memoID} |-> memos[m]]

\* result.RowsAffected() of DELETE FROM memos WHERE memo_id = $1
RowsAffected(memoID) == IF memoID \in DOMAIN memos THEN 1 ELSE 0

\* ------------------------------------------------------------------------
\* MemoHandler.Create
\* ------------------------------------------------------------------------
\* binding:"required" of CreateMemoRequest: Text and DurationSeconds must
\* not be the zero value
BindOK(form) == form.text # "" /\ form.duration_seconds # 0

\* middleware, userRepo.GetByID, ParseMultipartForm, FormFile and size check
CreateBegin(r) ==
  /\ Free(r)
  /\ \E uid \in UserIds, dbok \in BOOLEAN, input \in CreateInputs :
       LET q == [IdleReq EXCEPT !.kind = "Create", !.uid = uid, !.arg = input]
           user == UserGetByID(uid)
       IN IF ~dbok \/ user = {} THEN Respond(r, [q EXCEPT !.res = "readerr"], InternalError)
          ELSE IF ~input.parsed THEN Respond(r, q, ValidationError)
          ELSE IF input.audio = "big" THEN Respond(r, q, TooLarge)
          ELSE Goto(r, [q EXCEPT !.user = user], "crt_upload")
  /\ started' = started + 1
  /\ UNCHANGED <<users, memos, blobs, nextMemo, nextBlob>>

\* firebaseService.UploadAudioFile (or the placeholder), then ShouldBind
CreateUpload(r) ==
  /\ req[r].pc = "crt_upload"
  /\ LET q == req[r]
         fileName == ObjectName(q.uid, nextBlob)
     IN IF q.arg.audio = "ok"
        THEN \E stok \in BOOLEAN :
               IF ~stok
               THEN \* UploadAudioFile returned an error.  After a failed
                    \* io.Copy it has called writer.Close(), which may commit
                    \* the bytes written so far as the object.
                    /\ Respond(r, [q EXCEPT !.res = "upstream"], InternalError)
                    /\ \E written \in BOOLEAN :
                         IF written
                         THEN blobs' = blobs \cup {fileName} /\ nextBlob' = nextBlob + 1
                         ELSE UNCHANGED <<blobs, nextBlob>>
               ELSE /\ blobs' = blobs \cup {fileName}
                    /\ nextBlob' = nextBlob + 1
                    /\ IF BindOK(q.arg.form)
                       THEN Goto(r, [q EXCEPT !.audioURL = UploadURL(fileName)], "crt_insert")
                       ELSE Respond(r, [q EXCEPT !.audioURL = UploadURL(fileName)], ValidationError)
        ELSE /\ UNCHANGED <<blobs, nextBlob>>
             /\ IF BindOK(q.arg.form)
                THEN Goto(r, [q EXCEPT !.audioURL = Placeholder], "crt_insert")
                ELSE Respond(r, [q EXCEPT !.audioURL = Placeholder], ValidationError)
  /\ UNCHANGED <<users, memos, started, nextMemo>>

\* the models.Memo built from the request
NewMemo(q) ==
  [memo_id |-> 0, user_id |-> q.uid, user_name |-> Deref(q.user).display_name,
   title |-> q.arg.form.title, audio_url |-> q.audioURL, text |-> q.arg.form.text,
   duration_seconds |-> q.arg.form.duration_seconds,
   latitude |-> q.arg.form.latitude, longitude |-> q.arg.form.longitude,
   location_accuracy |-> q.arg.form.location_accuracy, address |-> {},
   park_name |-> q.arg.form.park_name, created_at |-> 0, updated_at |-> 0]

\* the error path answering at once, without the cleanup
InsertFailedNoCleanup(r, q) == Respond(r, [q EXCEPT !.res = "err"], InternalError)

\* memoRepo.Create returned an error: the handler goes on to the cleanup
InsertFailed(r, q) == Goto(r, [q EXCEPT !.res = "err"], "crt_cleanup")

\* memoRepo.Create
CreateInsert(r) ==
  /\ req[r].pc = "crt_insert"
  /\ \E dbok \in BOOLEAN, t \in 0..MaxTime :
       /\ Clock(t)
       /\ LET q == req[r]
              memo == NewMemo(q)
          IN IF dbok /\ MemoInsertAllowed(memo)
             THEN /\ memos' = MemoCreate(memo, t)
                  /\ nextMemo' = nextMemo + 1
                  /\ Respond(r, [q EXCEPT !.res = "ok", !.id = nextMemo],
                             Resp(201, "", {memos'[nextMemo]}))
             ELSE /\ InsertFailed(r, q)
                  /\ UNCHANGED <<memos, nextMemo>>
  /\ UNCHANGED <<users, blobs, started, nextBlob>>

\* the insert failed: _ = DeleteAudioFile(audioURL), then 500
CreateCleanup(r) ==
  /\ req[r].pc = "crt_cleanup"
  /\ \E stok \in BOOLEAN :
       LET q == req[r]
       IN /\ blobs' = DeleteAudioFile(q.audioURL, stok)
          /\ Respond(r, [q EXCEPT !.blobres = DeleteAudioResult(q.audioURL, stok)],
                     InternalError)
  /\ UNCHANGED <<users, memos, started, nextMemo, nextBlob>>

\* ------------------------------------------------------------------------
\* MemoHandler.Update
\* ------------------------------------------------------------------------
\* the ownership comparison dropped
IsOwnerAnyone(memo, userID) == TRUE

IsOwner(memo, userID) == memo.user_id = userID

\* the len(updates) == 0 check dropped
NoFieldsNever(updates) == FALSE

NoFields(updates) == DOMAIN updates = {}

\* middleware, uuid.Parse, memoRepo.GetByID, ownership check, ShouldBindJSON
\* and the construction of the updates map
UpdateCheck(r) ==
  /\ Free(r)
  /\ \E uid \in UserIds, id \in MemoIdInputs, dbok \in BOOLEAN, input \in UpdateInputs :
       LET q == [IdleReq EXCEPT !.kind = "Update", !.uid = uid, !.id = id,
                   !.arg = [bound |-> input.bound, updates |-> UpdatesMap(input.body)]]
           memo == MemoGetByID(id)
       IN IF id = BadId THEN Respond(r, q, ValidationError)
          ELSE IF ~dbok THEN Respond(r, [q EXCEPT !.res = "readerr"], InternalError)
          ELSE IF memo = {} THEN Respond(r, q, NotFound)
          ELSE IF ~IsOwner(Deref(memo), uid)
               THEN Respond(r, [q EXCEPT !.memo = memo], AuthorizationError)
          ELSE IF ~input.bound THEN Respond(r, [q EXCEPT !.memo = memo], ValidationError)
          ELSE IF NoFields(q.arg.updates)
               THEN Respond(r, [q EXCEPT !.memo = memo], ValidationError)
          ELSE Goto(r, [q EXCEPT !.memo = memo], "upd_exec")
  /\ started' = started + 1
  /\ UNCHANGED <<users, memos, blobs, nextMemo, nextBlob>>

\* memoRepo.Update up to ExecContext
UpdateExec(r) ==
  /\ req[r].pc = "upd_exec"
  /\ \E dbok \in BOOLEAN, t \in 0..MaxTime :
       /\ Clock(t)
       /\ LET q == req[r]
          IN IF DOMAIN q.arg.updates = {} \/ ~dbok
             THEN /\ Respond(r, [q EXCEPT !.res = "err"], InternalError)
                  /\ UNCHANGED memos
             ELSE IF q.id \in DOMAIN memos
             THEN /\ memos' = MemoUpdate(q.id, q.arg.updates, t)
                  /\ Goto(r, [q EXCEPT !.res = "ok"], "upd_fetch")
             ELSE /\ Goto(r, [q EXCEPT !.res = "norows"], "upd_fetch")
                  /\ UNCHANGED memos
  /\ UNCHANGED <<users, blobs, started, nextMemo, nextBlob>>

\* the handler's answer to what memoRepo.Update returned
UpdateResponse(updatedMemo) == Resp(200, "", updatedMemo)

\* return r.GetByID(ctx, memoID), and the handler's response
UpdateFetch(r) ==
  /\ req[r].pc = "upd_fetch"
  /\ \E dbok \in BOOLEAN :
       LET q == req[r]
       IN IF ~dbok THEN Respond(r, [q EXCEPT !.res = "readerr"], InternalError)
          ELSE Respond(r, q, UpdateResponse(MemoGetByID(q.id)))
  /\ UNCHANGED <<users, memos, blobs, started, nextMemo, nextBlob>>

\* ------------------------------------------------------------------------
\* MemoHandler.Delete
\* ------------------------------------------------------------------------
\* middleware, uuid.Parse, memoRepo.GetByID and the ownership check
DeleteCheck(r) ==
  /\ Free(r)
  /\ \E uid \in UserIds, id \in MemoIdInputs, dbok \in BOOLEAN :
       LET q == [IdleReq EXCEPT !.kind = "Delete", !.uid = uid, !.id = id]
           memo == MemoGetByID(id)
       IN IF id = BadId THEN Respond(r, q, ValidationError)
          ELSE IF ~dbok THEN Respond(r, [q EXCEPT !.res = "readerr"], InternalError)
          ELSE IF memo = {} THEN Respond(r, q, NotFound)
          ELSE IF ~IsOwner(Deref(memo), uid)
               THEN Respond(r, [q EXCEPT !.memo = memo], AuthorizationError)
          ELSE Goto(r, [q EXCEPT !.memo = memo], "del_blob")
  /\ started' = started + 1
  /\ UNCHANGED <<users, memos, blobs, nextMemo, nextBlob>>

\* the error of DeleteAudioFile answered with 500
BlobDeleteChecked(r, q) ==
  IF q.blobres = "ok" THEN Goto(r, q, "del_row") ELSE Respond(r, q, InternalError)

\* if err := DeleteAudioFile(...); err != nil { } : the handler goes on to
\* the row whatever the result
BlobDeleteDone(r, q) == Goto(r, q, "del_row")

\* firebaseService.DeleteAudioFile(memo.AudioURL); its error is dropped
DeleteBlob(r) ==
  /\ req[r].pc = "del_blob"
  /\ \E stok \in BOOLEAN :
       LET q == req[r]
           url == Deref(q.memo).audio_url
       IN /\ blobs' = DeleteAudioFile(url, stok)
          /\ BlobDeleteDone(r, [q EXCEPT !.blobres = DeleteAudioResult(url, stok)])
  /\ UNCHANGED <<users, memos, started, nextMemo, nextBlob>>

\* the RowsAffected check dropped
DeleteResultAlwaysOk(rows) == "ok"

\* MemoRepository.Delete: "memo not found" when no row was affected
DeleteResult(rows) == IF rows = 0 THEN "norows" ELSE "ok"

\* the handler's answer to an error of memoRepo.Delete
DeleteErrorResponse(res) == InternalError

\* memoRepo.Delete and the handler's response
DeleteRow(r) ==
  /\ req[r].pc = "del_row"
  /\ \E dbok \in BOOLEAN :
       LET q == req[r]
           res == IF ~dbok THEN "err" ELSE DeleteResult(RowsAffected(q.id))
       IN /\ memos' = IF dbok THEN MemoDelete(q.id) ELSE memos
          /\ IF res = "ok"
             THEN Respond(r, [q EXCEPT !.res = res], Resp(204, "", {}))
             ELSE Respond(r, [q EXCEPT !.res = res], DeleteErrorResponse(res))
  /\ UNCHANGED <<users, blobs, started, nextMemo, nextBlob>>

\* ------------------------------------------------------------------------
\* Query strings.  A query parameter is {} when its key is absent and {s}
\* when it is present with the value s.
\* ------------------------------------------------------------------------
DefaultQuery(param, def) == IF param = {} THEN def ELSE Deref(param)

Query(param) == IF param = {} THEN "" ELSE Deref(param)

Digits == {"0", "1", "2", "3", "4", "5", "6", "7", "8", "9"}

DigitVal(c) ==
  CASE c = "0" -> 0 [] c = "1" -> 1 [] c = "2" -> 2 [] c = "3" -> 3 [] c = "4" -> 4
    [] c = "5" -> 5 [] c = "6" -> 6 [] c = "7" -> 7 [] c = "8" -> 8 [] c = "9" -> 9

RECURSIVE ParseDigits(_, _)
ParseDigits(s, acc) ==
  IF s = "" THEN [ok |-> TRUE, val |-> acc]
  ELSE IF SubSeq(s, 1, 1) \notin Digits THEN [ok |-> FALSE, val |-> 0]
  ELSE ParseDigits(SubSeq(s, 2, Len(s)), acc * 10 + DigitVal(SubSeq(s, 1, 1)))

\* strconv.Atoi: an optional sign and decimal digits; (0, err) on a syntax
\* error.  For the strings whose value fits the integers of the checker;
\* Atoi64 below is the same function on the 64 bits of a Go int.
Atoi(s) ==
  IF s = "" THEN [ok |-> FALSE, val |-> 0]
  ELSE LET sign == SubSeq(s, 1, 1)
           body == IF sign \in {"+", "-"} THEN SubSeq(s, 2, Len(s)) ELSE s
           p == ParseDigits(body, 0)
       IN IF body = "" \/ ~p.ok THEN [ok |-> FALSE, val |-> 0]
          ELSE [ok |-> TRUE, val |-> IF sign = "-" THEN 0 - p.val ELSE p.val]

\* page, _ := strconv.Atoi(c.DefaultQuery("page", "1")); if page < 1 { page = 1 }
PageParam(param) ==
  LET page == Atoi(DefaultQuery(param, "1")).val
  IN IF page < 1 THEN 1 ELSE page

\* the limit > 500 check dropped
ListLimitNoMax(param) ==
  LET limit == Atoi(DefaultQuery(param, "100")).val
  IN IF limit < 1 THEN 100 ELSE limit

\* MemoHandler.List: limit, _ := Atoi(DefaultQuery("limit", "100"))
ListLimit(param) ==
  LET limit == Atoi(DefaultQuery(param, "100")).val
  IN IF limit < 1 \/ limit > 500 THEN 100 ELSE limit

\* MemoHandler.Search: limit, _ := Atoi(DefaultQuery("limit", "20"))
SearchLimit(param) ==
  LET limit == Atoi(DefaultQuery(param, "20")).val
  IN IF limit < 1 \/ limit > 100 THEN 20 ELSE limit

\* MemoHandler.GetNearby: radius, err := Atoi(DefaultQuery("radius_meters", "1000"))
NearbyRadius(param) ==
  LET radius == Atoi(DefaultQuery(param, "1000"))
  IN IF ~radius.ok \/ radius.val < 0 \/ radius.val > 50000 THEN 1000 ELSE radius.val

\* MemoHandler.GetNearby: limit, err := Atoi(DefaultQuery("limit", "50"))
NearbyLimit(param) ==
  LET limit == Atoi(DefaultQuery(param, "50"))
  IN IF ~limit.ok \/ limit.val < 1 \/ limit.val > 200 THEN 50 ELSE limit.val

\* ------------------------------------------------------------------------
\* MemoHandler.List and MemoRepository.List
\* ------------------------------------------------------------------------
NoQuery ==
  [page |-> {}, limit |-> {}, park_name |-> {}, user_id |-> {},
   start_date |-> {}, end_date |-> {}]

\* query strings of GET /memos
ListInputs ==
  {NoQuery,
   [NoQuery EXCEPT !.page = {"1"}, !.limit = {"1"}],
   [NoQuery EXCEPT !.page = {"2"}, !.limit = {"1"}],
   [NoQuery EXCEPT !.page = {"0"}, !.limit = {"2"}],
   [NoQuery EXCEPT !.page = {"2"}, !.limit = {"501"}],
   [NoQuery EXCEPT !.park_name = {"p1"}, !.limit = {"1"}],
   [NoQuery EXCEPT !.user_id = {"u1"}, !.start_date = {"1"}],
   [NoQuery EXCEPT !.user_id = {""}, !.end_date = {"0"}],
   [NoQuery EXCEPT !.start_date = {"x"}]}

\* the filters map: a parameter that is absent or empty adds no entry
ListFilters(input) ==
  [f \in {g \in {"park_name", "user_id", "start_date", "end_date"} : Query(input[g]) # ""}
     |-> Query(input[f])]

\* the date parameters reach PostgreSQL as text; one that is no timestamp
\* makes both queries fail
FiltersValid(filters) ==
  \A f \in DOMAIN filters \cap {"start_date", "end_date"} : Atoi(filters[f]).ok

\* the WHERE clause: the conjunction of the clauses of the supplied filters
MatchesFilters(row, filters) ==
  /\ "park_name" \in DOMAIN filters => row.park_name = {filters["park_name"]}
  /\ "user_id" \in DOMAIN filters => row.user_id = filters["user_id"]
  /\ "start_date" \in DOMAIN filters => row.created_at >= Atoi(filters["start_date"]).val
  /\ "end_date" \in DOMAIN filters => row.created_at <= Atoi(filters["end_date"]).val

ListMatching(filters) == {m \in DOMAIN memos : MatchesFilters(memos[m], filters)}

\* SELECT COUNT(*) FROM memos <where>
ListCountRows(filters) == Cardinality(ListMatching(filters))

\* ORDER BY created_at DESC: every order of the rows that is descending in
\* created_at (rows of equal created_at come in any order)
OrderedByCreatedDesc(ids) ==
  {o \in [1..Cardinality(ids) -> ids] :
     /\ \A i, j \in 1..Cardinality(ids) : i # j => o[i] # o[j]
     /\ \A i, j \in 1..Cardinality(ids) :
          i < j => memos[o[i]].created_at >= memos[o[j]].created_at}

\* LIMIT limit OFFSET offset
LimitOffset(rows, limit, offset) ==
  IF offset >= Len(rows) THEN <<>>
  ELSE SubSeq(rows, offset + 1, IF offset + limit < Len(rows) THEN offset + limit ELSE Len(rows))

\* for rows.Next() { ... } with rows.Err() never checked: the rows scanned
\* are all rows of the result ("ok") or, when the query fails while rows are
\* delivered, those before the failure ("cut"); both return a nil error
ScanRows(rows) ==
  {[rows |-> SubSeq(rows, 1, k), res |-> IF k = Len(rows) THEN "ok" ELSE "cut"] :
     k \in 0..Len(rows)}

\* the models.MemoListItem built from a scanned row
ListItem(row) ==
  [memo_id |-> row.memo_id, user_id |-> row.user_id, user_name |-> row.user_name,
   title |-> row.title, audio_url |-> row.audio_url, text |-> row.text,
   duration_seconds |-> row.duration_seconds,
   location |-> IF row.latitude # {} /\ row.longitude # {}
                THEN {[latitude |-> Deref(row.latitude), longitude |-> Deref(row.longitude),
                       accuracy |-> row.location_accuracy, address |-> row.address]}
                ELSE {},
   park_name |-> row.park_name, created_at |-> row.created_at,
   updated_at |-> row.updated_at]

ListItems(rows) == [i \in 1..Len(rows) |-> ListItem(memos[rows[i]])]

\* the pages of the second query of MemoRepository.List
ListPageRows(filters, page, limit) ==
  {ListItems(LimitOffset(o, limit, (page - 1) * limit)) :
     o \in OrderedByCreatedDesc(ListMatching(filters))}

\* the page count rounded down
TotalPagesFloor(total, limit) == total \div limit

\* totalPages := (total + limit - 1) / limit
TotalPages(total, limit) == (total + limit - 1) \div limit

\* models.PaginationResponse
Pagination(page, limit, total) ==
  [current_page |-> page, total_pages |-> TotalPages(total, limit),
   total_items |-> total, items_per_page |-> limit,
   has_next |-> page < TotalPages(total, limit), has_previous |-> page > 1]

\* middleware, query parsing and the count query of memoRepo.List
ListCount(r) ==
  /\ Free(r)
  /\ \E uid \in UserIds, input \in ListInputs, dbok \in BOOLEAN :
       LET filters == ListFilters(input)
           q == [IdleReq EXCEPT !.kind = "List", !.uid = uid,
                   !.arg = [page |-> PageParam(input.page), limit |-> ListLimit(input.limit),
                            filters |-> filters, total |-> ListCountRows(filters)]]
       IN IF ~dbok \/ ~FiltersValid(filters)
          THEN Respond(r, [q EXCEPT !.res = "readerr"], InternalError)
          ELSE Goto(r, [q EXCEPT !.res = "counted"], "list_page")
  /\ started' = started + 1
  /\ UNCHANGED <<users, memos, blobs, nextMemo, nextBlob>>

\* the page query of memoRepo.List and the handler's response
ListFetch(r) ==
  /\ req[r].pc = "list_page"
  /\ \E dbok \in BOOLEAN :
       LET q == req[r]
       IN IF ~dbok THEN Respond(r, [q EXCEPT !.res = "readerr"], InternalError)
          ELSE \E rows \in ListPageRows(q.arg.filters, q.arg.page, q.arg.limit) :
               \E scan \in ScanRows(rows) :
                 Respond(r, [q EXCEPT !.res = scan.res],
                         Resp(200, "", {[memos |-> scan.rows,
                                         pagination |-> Pagination(q.arg.page, q.arg.limit,
                                                                   q.arg.total)]}))
  /\ UNCHANGED <<users, memos, blobs, started, nextMemo, nextBlob>>

\* ------------------------------------------------------------------------
\* MemoHandler.Search and MemoRepository.SearchByText
\* ------------------------------------------------------------------------
\* query strings of GET /memos/search
SearchInputs ==
  {[q |-> {}, page |-> {}, limit |-> {}],
   [q |-> {""}, page |-> {"1"}, limit |-> {"1"}],
   [q |-> {"t1"}, page |-> {}, limit |-> {}],
   [q |-> {"T1"}, page |-> {"1"}, limit |-> {"1"}],
   [q |-> {"t1"}, page |-> {"2"}, limit |-> {"101"}],
   [q |-> {"zz"}, page |-> {}, limit |-> {"1"}]}

\* the lexeme the 'english' configuration makes of a word (lower case)
Lexeme(word) == IF word = "T1" THEN "t1" ELSE IF word = "T2" THEN "t2" ELSE word

\* to_tsvector('english', text) @@ plainto_tsquery('english', query), for
\* texts and queries of one word
TextMatches(text, query) == Lexeme(text) = Lexeme(query)

SearchMatching(query) == {m \in DOMAIN memos : TextMatches(memos[m].text, query)}

\* ORDER BY rank DESC, created_at DESC LIMIT $2 OFFSET $3 (the rank of all
\* matching one-word texts is the same)
SearchPageRows(query, page, limit) ==
  {ListItems(LimitOffset(o, limit, (page - 1) * limit)) :
     o \in OrderedByCreatedDesc(SearchMatching(query))}

\* the query == "" check dropped
EmptyQueryNever(query) == FALSE

EmptyQuery(query) == query = ""

\* middleware, the q check, query parsing and the count query of SearchByText
SearchCount(r) ==
  /\ Free(r)
  /\ \E uid \in UserIds, input \in SearchInputs, dbok \in BOOLEAN :
       LET query == Query(input.q)
           q == [IdleReq EXCEPT !.kind = "Search", !.uid = uid,
                   !.arg = [query |-> query, page |-> PageParam(input.page),
                            limit |-> SearchLimit(input.limit),
                            total |-> Cardinality(SearchMatching(query))]]
       IN IF EmptyQuery(query) THEN Respond(r, q, ValidationError)
          ELSE IF ~dbok THEN Respond(r, [q EXCEPT !.res = "readerr"], InternalError)
          ELSE Goto(r, [q EXCEPT !.res = "counted"], "search_page")
  /\ started' = started + 1
  /\ UNCHANGED <<users, memos, blobs, nextMemo, nextBlob>>

\* the page query of SearchByText and the handler's response
SearchFetch(r) ==
  /\ req[r].pc = "search_page"
  /\ \E dbok \in BOOLEAN :
       LET q == req[r]
       IN IF ~dbok THEN Respond(r, [q EXCEPT !.res = "readerr"], InternalError)
          ELSE \E rows \in SearchPageRows(q.arg.query, q.arg.page, q.arg.limit) :
               \E scan \in ScanRows(rows) :
                 Respond(r, [q EXCEPT !.res = scan.res],
                         Resp(200, "", {[results |-> scan.rows, query |-> q.arg.query,
                                         pagination |-> Pagination(q.arg.page, q.arg.limit,
                                                                   q.arg.total)]}))
  /\ UNCHANGED <<users, memos, blobs, started, nextMemo, nextBlob>>

\* ------------------------------------------------------------------------
\* MemoHandler.GetNearby and MemoRepository.GetNearby
\* ------------------------------------------------------------------------
\* query strings of GET /memos/nearby
NearbyInputs ==
  {[latitude |-> {}, longitude |-> {"111"}, radius_meters |-> {}, limit |-> {}],
   [latitude |-> {"abc"}, longitude |-> {"111"}, radius_meters |-> {}, limit |-> {}],
   [latitude |-> {"45"}, longitude |-> {"x"}, radius_meters |-> {}, limit |-> {}],
   [latitude |-> {"45"}, longitude |-> {"111"}, radius_meters |-> {}, limit |-> {}],
   [latitude |-> {"45"}, longitude |-> {"111"}, radius_meters |-> {"0"}, limit |-> {"1"}],
   [latitude |-> {"45"}, longitude |-> {"112"}, radius_meters |-> {"50001"}, limit |-> {"0"}],
   [latitude |-> {"8"}, longitude |-> {"111"}, radius_meters |-> {"50000"}, limit |-> {"200"}]}

\* strconv.ParseFloat(s, 64), for the whole degrees the model's coordinates are
ParseFloat(s) == Atoi(s)

\* cos(radians(lat)) * cos(radians(mlat)) * cos(radians(mlon) - radians(lon))
\* + sin(radians(lat)) * sin(radians(mlat)) evaluated in float8 is
\* 1.0000000000000002 for a row at latitude 8 that lies on the centre itself:
\* acos then raises "input is out of range" and the whole query fails.
AcosOutOfRange(lat, lon, mlat, mlon) == lat = mlat /\ lon = mlon /\ lat = 8

\* 6371000 * acos(...) between the coordinates of the model, in centimetres
DistanceCm(lat, lon, mlat, mlon) ==
  IF lat = mlat /\ lon = mlon THEN 0
  ELSE IF lat = mlat THEN 7862619
  ELSE IF lon = mlon THEN 411421229
  ELSE 411534116

\* FROM memos WHERE latitude IS NOT NULL AND longitude IS NOT NULL
WithCoordinates == {m \in DOMAIN memos : memos[m].latitude # {} /\ memos[m].longitude # {}}

RowDistance(lat, lon, m) ==
  DistanceCm(lat, lon, Deref(memos[m].latitude), Deref(memos[m].longitude))

NearbyQueryFails(lat, lon) ==
  \E m \in WithCoordinates :
    AcosOutOfRange(lat, lon, Deref(memos[m].latitude), Deref(memos[m].longitude))

\* WHERE distance_meters <= $3
WithinRadius(lat, lon, radiusMeters) ==
  {m \in WithCoordinates : RowDistance(lat, lon, m) <= radiusMeters * 100}

\* ORDER BY distance_meters ASC (rows of equal distance come in any order)
OrderedByDistance(lat, lon, ids) ==
  {o \in [1..Cardinality(ids) -> ids] :
     /\ \A i, j \in 1..Cardinality(ids) : i # j => o[i] # o[j]
     /\ \A i, j \in 1..Cardinality(ids) :
          i < j => RowDistance(lat, lon, o[i]) <= RowDistance(lat, lon, o[j])}

\* the models.NearbyMemo built from a scanned row
NearbyMemo(lat, lon, m) ==
  [memo_id |-> memos[m].memo_id, user_name |-> memos[m].user_name,
   title |-> memos[m].title, park_name |-> memos[m].park_name,
   location |-> {[latitude |-> Deref(memos[m].latitude),
                  longitude |-> Deref(memos[m].longitude),
                  accuracy |-> memos[m].location_accuracy, address |-> memos[m].address]},
   distance_cm |-> RowDistance(lat, lon, m), created_at |-> memos[m].created_at]

NearbyRows(lat, lon, radiusMeters, limit) ==
  {[i \in 1..Len(LimitOffset(o, limit, 0)) |-> NearbyMemo(lat, lon, o[i])] :
     o \in OrderedByDistance(lat, lon, WithinRadius(lat, lon, radiusMeters))}

\* the whole handler: middleware, parameter checks, memoRepo.GetNearby
GetNearby(r) ==
  /\ Free(r)
  /\ \E uid \in UserIds, input \in NearbyInputs, dbok \in BOOLEAN :
       LET lat == ParseFloat(Query(input.latitude))
           lon == ParseFloat(Query(input.longitude))
           radius == NearbyRadius(input.radius_meters)
           limit == NearbyLimit(input.limit)
           q == [IdleReq EXCEPT !.kind = "GetNearby", !.uid = uid,
                   !.arg = [latitude |-> lat, longitude |-> lon,
                            radius |-> radius, limit |-> limit]]
       IN IF Query(input.latitude) = "" \/ Query(input.longitude) = ""
          THEN Respond(r, q, ValidationError)
          ELSE IF ~lat.ok \/ ~lon.ok THEN Respond(r, q, ValidationError)
          ELSE IF ~dbok THEN Respond(r, [q EXCEPT !.res = "readerr"], InternalError)
          ELSE IF NearbyQueryFails(lat.val, lon.val)
          THEN Respond(r, [q EXCEPT !.res = "rangeerr"], InternalError)
          ELSE \E rows \in NearbyRows(lat.val, lon.val, radius, limit) :
               \E scan \in ScanRows(rows) :
                 Respond(r, [q EXCEPT !.res = scan.res],
                         Resp(200, "", {[memos |-> scan.rows,
                                         center |-> [latitude |-> lat.val,
                                                     longitude |-> lon.val],
                                         radius_meters |-> radius,
                                         total_found |-> Len(scan.rows)]}))
  /\ started' = started + 1
  /\ UNCHANGED <<users, memos, blobs, nextMemo, nextBlob>>

\* ------------------------------------------------------------------------
\* MemoHandler.GetByID and MemoRepository.GetByID
\* ------------------------------------------------------------------------
\* the models.Memo of the response: the row, with Location populated when
\* both coordinates are present
MemoWithLocation(row) ==
  [memo |-> row,
   location |-> IF row.latitude # {} /\ row.longitude # {}
                THEN {[latitude |-> Deref(row.latitude), longitude |-> Deref(row.longitude),
                       accuracy |-> row.location_accuracy, address |-> row.address]}
                ELSE {}]

\* the memo answered to its owner only
GetByIDOwnerOnly(userID, id, dbok) ==
  IF id = BadId THEN ValidationError
  ELSE IF ~dbok THEN InternalError
  ELSE IF MemoGetByID(id) = {} THEN NotFound
  ELSE IF Deref(MemoGetByID(id)).user_id # userID THEN AuthorizationError
  ELSE Resp(200, "", {MemoWithLocation(Deref(MemoGetByID(id)))})

\* the response of the handler to the caller userID of the request context:
\* uuid.Parse, memoRepo.GetByID, the nil check, c.JSON(200, memo)
GetByIDResponse(userID, id, dbok) ==
  IF id = BadId THEN ValidationError
  ELSE IF ~dbok THEN InternalError
  ELSE IF MemoGetByID(id) = {} THEN NotFound
  ELSE Resp(200, "", {MemoWithLocation(Deref(MemoGetByID(id)))})

\* the whole handler, behind the middleware
GetByID(r) ==
  /\ Free(r)
  /\ \E uid \in UserIds, id \in MemoIdInputs, dbok \in BOOLEAN :
       Respond(r, [IdleReq EXCEPT !.kind = "GetByID", !.uid = uid, !.id = id,
                                  !.res = IF id # BadId /\ ~dbok THEN "readerr" ELSE "ok"],
               GetByIDResponse(uid, id, dbok))
  /\ started' = started + 1
  /\ UNCHANGED <<users, memos, blobs, nextMemo, nextBlob>>

\* The database and the bucket outlive the server process: the service
\* starts either on the empty schema of 001_init.sql or on what an earlier
\* run left there (here: user u1, registered, and one memo of u1 with its
\* audio object, as Register and Create leave them).
SeedUser ==
  [user_id |-> "u1", email |-> FirebaseEmail("u1"), display_name |-> "n1",
   department |-> "d1", color |-> NoColor, created_at |-> 0]

SeedMemo ==
  [memo_id |-> 1, user_id |-> "u1", user_name |-> "n1", title |-> {"T1"},
   audio_url |-> UploadURL(ObjectName("u1", 1)), text |-> "t1",
   duration_seconds |-> 30, latitude |-> {45}, longitude |-> {111},
   location_accuracy |-> {5}, address |-> {}, park_name |-> {"p1"},
   created_at |-> 0, updated_at |-> 0]

EmptyStore ==
  /\ users = <<>>
  /\ memos = <<>>
  /\ blobs = {}
  /\ nextMemo = 1
  /\ nextBlob = 1

SeededStore ==
  /\ users = [u \in {"u1"} |-> SeedUser]
  /\ memos = [m \in {1} |-> SeedMemo]
  /\ blobs = {ObjectName("u1", 1)}
  /\ nextMemo = 2
  /\ nextBlob = 2

Init ==
  /\ EmptyStore \/ SeededStore
  /\ req = [r \in Reqs |-> IdleReq]
  /\ last = {}
  /\ started = 0

Next ==
  \E r \in Reqs :
    \/ AuthReject(r)
    \/ HealthCheck(r)
    \/ GetMe(r)
    \/ RegisterCheck(r)
    \/ RegisterInsert(r)
    \/ CreateBegin(r)
    \/ CreateUpload(r)
    \/ CreateInsert(r)
    \/ CreateCleanup(r)
    \/ UpdateCheck(r)
    \/ UpdateExec(r)
    \/ UpdateFetch(r)
    \/ DeleteCheck(r)
    \/ DeleteBlob(r)
    \/ DeleteRow(r)

Spec == Init /\ [][Next]_vars

\* ------------------------------------------------------------------------
\* The read routes, with the memo Create and Delete requests that run beside
\* them.  The store an earlier run left may also hold a second memo of u1,
\* recorded without audio at latitude 8, longitude 111.
\* ------------------------------------------------------------------------
SecondMemo ==
  [memo_id |-> 2, user_id |-> "u1", user_name |-> "n1", title |-> {},
   audio_url |-> Placeholder, text |-> "t2",
   duration_seconds |-> 30, latitude |-> {8}, longitude |-> {111},
   location_accuracy |-> {}, address |-> {}, park_name |-> {},
   created_at |-> 0, updated_at |-> 0]

TwoMemoStore ==
  /\ users = [u \in {"u1"} |-> SeedUser]
  /\ memos = [m \in {1, 2} |-> IF m = 1 THEN SeedMemo ELSE SecondMemo]
  /\ blobs = {ObjectName("u1", 1)}
  /\ nextMemo = 3
  /\ nextBlob = 2

InitRead ==
  /\ EmptyStore \/ SeededStore \/ TwoMemoStore
  /\ req = [r \in Reqs |-> IdleReq]
  /\ last = {}
  /\ started = 0

NextRead ==
  \E r \in Reqs :
    \/ CreateBegin(r)
    \/ CreateUpload(r)
    \/ CreateInsert(r)
    \/ CreateCleanup(r)
    \/ DeleteCheck(r)
    \/ DeleteBlob(r)
    \/ DeleteRow(r)
    \/ ListCount(r)
    \/ ListFetch(r)
    \/ SearchCount(r)
    \/ SearchFetch(r)
    \/ GetNearby(r)
    \/ GetByID(r)

SpecRead == InitRead /\ [][NextRead]_vars

\* ------------------------------------------------------------------------
\* UserRepository.Update and UserRepository.Delete.  No route calls them:
\* they are operations of the store, each one SQL statement, and run beside
\* the requests.  last records the call (without a response).
\* ------------------------------------------------------------------------
\* the *models.User passed to Update: only DisplayName, Department and UserID
\* are arguments of the statement
UserInputs ==
  {[user_id |-> u, email |-> "other@example.com", display_name |-> "n3",
    department |-> "d3", color |-> GenerateUserColor(u), created_at |-> 1] :
     u \in UserIds}

\* the whole row overwritten with the struct
UpdatedUserWhole(row, user) == user

\* SET display_name = $1, department = $2
UpdatedUser(row, user) ==
  [row EXCEPT !.display_name = user.display_name, !.department = user.department]

\* UPDATE users ... WHERE user_id = $3
UserUpdateRows(user) ==
  [u \in DOMAIN users |-> IF u = user.user_id THEN UpdatedUser(users[u], user) ELSE users[u]]

\* memos.user_name rewritten with the new display_name
MemosWithUserNameOf(user) ==
  [m \in DOMAIN memos |->
     IF memos[m].user_id = user.user_id
     THEN [memos[m] EXCEPT !.user_name = user.display_name] ELSE memos[m]]

\* the memo table after UPDATE users: the statement names no column of memos
\* and the schema has no trigger on users
MemosAfterUserUpdate(user) == memos

UserUpdate ==
  /\ started < MaxRequests
  /\ \E user \in UserInputs, dbok \in BOOLEAN :
       /\ users' = IF dbok THEN UserUpdateRows(user) ELSE users
       /\ memos' = IF dbok THEN MemosAfterUserUpdate(user) ELSE memos
       /\ last' = {[IdleReq EXCEPT !.pc = "done", !.kind = "UserUpdate",
                                   !.uid = user.user_id, !.arg = user,
                                   !.res = IF dbok THEN "ok" ELSE "err"]}
  /\ started' = started + 1
  /\ UNCHANGED <<blobs, req, nextMemo, nextBlob>>

\* the memo rows left as they are
CascadeNone(userID) == memos

\* memos.user_id REFERENCES users(user_id) ON DELETE CASCADE
CascadeMemos(userID) ==
  [m \in {n \in DOMAIN memos : memos[n].user_id # userID} |-> memos[m]]

\* DELETE FROM users WHERE user_id = $1
UserDelete ==
  /\ started < MaxRequests
  /\ \E userID \in UserIds, dbok \in BOOLEAN :
       /\ users' = IF dbok THEN [u \in DOMAIN users \ {userID} |-> users[u]] ELSE users
       /\ memos' = IF dbok THEN CascadeMemos(userID) ELSE memos
       /\ last' = {[IdleReq EXCEPT !.pc = "done", !.kind = "UserDelete", !.uid = userID,
                                   !.res = IF dbok THEN "ok" ELSE "err"]}
  /\ started' = started + 1
  /\ UNCHANGED <<blobs, req, nextMemo, nextBlob>>

NextUser ==
  \/ \E r \in Reqs :
       \/ RegisterCheck(r)
       \/ RegisterInsert(r)
       \/ CreateBegin(r)
       \/ CreateUpload(r)
       \/ CreateInsert(r)
       \/ CreateCleanup(r)
       \/ UpdateCheck(r)
       \/ UpdateExec(r)
       \/ UpdateFetch(r)
  \/ UserUpdate
  \/ UserDelete

SpecUser == Init /\ [][NextUser]_vars

\* ------------------------------------------------------------------------
\* The query parsing of the three paginated routes on its own: a request
\* arrives with the raw values of its parameters, and the handler computes
\* what it will pass to the repository.
\* ------------------------------------------------------------------------
RawParams ==
  {{}, {""}, {"abc"}, {"1.5"}, {"-1"}, {"0"}, {"1"}, {"+5"}, {"7"}, {"20"}, {"100"},
   {"101"}, {"200"}, {"201"}, {"500"}, {"501"}, {"50000"}, {"50001"}}

InitQuery ==
  /\ EmptyStore
  /\ \E kind \in {"List", "Search", "GetNearby"}, first \in RawParams, limit \in RawParams :
       req = [r \in Reqs |->
                IF r = "r1"
                THEN [IdleReq EXCEPT
                        !.pc = "query", !.kind = kind,
                        !.arg = [page |-> IF kind = "GetNearby" THEN {} ELSE first,
                                 radius_meters |-> IF kind = "GetNearby" THEN first ELSE {},
                                 limit |-> limit]]
                ELSE IdleReq]
  /\ last = {}
  /\ started = 0

\* MemoHandler.List, "Parse pagination parameters" and "Validate pagination"
ListQuery(r) ==
  /\ req[r].pc = "query"
  /\ req[r].kind = "List"
  /\ Goto(r, [req[r] EXCEPT !.arg = [raw |-> req[r].arg, page |-> PageParam(req[r].arg.page),
                                     limit |-> ListLimit(req[r].arg.limit), radius |-> 0]],
          "parsed")
  /\ UNCHANGED <<users, memos, blobs, started, nextMemo, nextBlob>>

\* MemoHandler.Search, the same two blocks
SearchQuery(r) ==
  /\ req[r].pc = "query"
  /\ req[r].kind = "Search"
  /\ Goto(r, [req[r] EXCEPT !.arg = [raw |-> req[r].arg, page |-> PageParam(req[r].arg.page),
                                     limit |-> SearchLimit(req[r].arg.limit), radius |-> 0]],
          "parsed")
  /\ UNCHANGED <<users, memos, blobs, started, nextMemo, nextBlob>>

\* MemoHandler.GetNearby, radius and limit
NearbyQuery(r) ==
  /\ req[r].pc = "query"
  /\ req[r].kind = "GetNearby"
  /\ Goto(r, [req[r] EXCEPT !.arg = [raw |-> req[r].arg, page |-> 0,
                                     limit |-> NearbyLimit(req[r].arg.limit),
                                     radius |-> NearbyRadius(req[r].arg.radius_meters)]],
          "parsed")
  /\ UNCHANGED <<users, memos, blobs, started, nextMemo, nextBlob>>

NextQuery == \E r \in Reqs : ListQuery(r) \/ SearchQuery(r) \/ NearbyQuery(r)

SpecQuery == InitQuery /\ [][NextQuery]_vars

\* ========================================================================
\* Properties
\* ========================================================================
\* the request that responded in the step, and the requests that moved
\* ------------------------------------------------------------------------
\* The offset of a page in the machine integer.  Go's int has 64 bits on the
\* 64-bit builds the service is deployed as; an int is modelled as its two's
\* complement bits, a sequence of 16-bit limbs, least significant first
\* (4 limbs for an int).
\* ------------------------------------------------------------------------
Limbs(n, k) == [i \in 1..k |-> IF i = 1 THEN n ELSE 0]

\* the carry into limb i of x * k + c
RECURSIVE Carry(_, _, _, _)
Carry(x, k, c, i) ==
  IF i = 1 THEN c ELSE (x[i - 1] * k + Carry(x, k, c, i - 1)) \div 65536

\* x * k + c in the width of x: the carry out of the top limb is lost
MulAdd(x, k, c) == [i \in 1..Len(x) |-> (x[i] * k + Carry(x, k, c, i)) % 65536]

\* the borrow into limb i of x - 1
RECURSIVE Borrow(_, _)
Borrow(x, i) == IF i = 1 THEN 1 ELSE IF x[i - 1] < Borrow(x, i - 1) THEN 1 ELSE 0

\* x - 1 in the width of x
Sub1(x) == [i \in 1..Len(x) |-> (x[i] - Borrow(x, i) + 65536) % 65536]

\* the sign bit of an int
Negative(x) == x[Len(x)] >= 32768

\* 1<<63 - 1 and 1<<63 as unsigned 64-bit values
MaxInt64 == <<65535, 65535, 65535, 32767>>

Cutoff64 == <<0, 0, 0, 32768>>

\* 1<<64 - 1
MaxUint64 == <<65535, 65535, 65535, 65535>>

\* strconv.ParseUint, base 10, 64 bits: the digits accumulated in a uint64.
\* A byte that is no digit ends the scan with (0, ErrSyntax); the digit at
\* which n*10 + d no longer fits ends it with (maxVal, ErrRange), and the
\* bytes after that digit are not looked at.
RECURSIVE ParseUint64(_, _)
ParseUint64(s, acc) ==
  IF s = "" THEN [ok |-> TRUE, over |-> FALSE, val |-> acc]
  ELSE IF SubSeq(s, 1, 1) \notin Digits
  THEN [ok |-> FALSE, over |-> FALSE, val |-> Limbs(0, 4)]
  ELSE LET d == DigitVal(SubSeq(s, 1, 1))
       IN IF Carry(acc, 10, d, Len(acc) + 1) # 0
          THEN [ok |-> TRUE, over |-> TRUE, val |-> MaxUint64]
          ELSE ParseUint64(SubSeq(s, 2, Len(s)), MulAdd(acc, 10, d))

\* strconv.Atoi on an int of 64 bits, as sign and magnitude, with the error
\* it returns: (0, ErrSyntax) on a syntax error; on a value out of range
\* the nearest int64 and ErrRange.  The handlers drop the error and keep the
\* value.
Atoi64(s) ==
  IF s = "" THEN [err |-> "syntax", neg |-> FALSE, mag |-> Limbs(0, 4)]
  ELSE LET sign == SubSeq(s, 1, 1)
           body == IF sign \in {"+", "-"} THEN SubSeq(s, 2, Len(s)) ELSE s
           neg == sign = "-"
           u == ParseUint64(body, Limbs(0, 4))
       IN IF body = "" \/ ~u.ok THEN [err |-> "syntax", neg |-> FALSE, mag |-> Limbs(0, 4)]
          ELSE IF ~neg /\ Negative(u.val)
          THEN [err |-> "range", neg |-> FALSE, mag |-> MaxInt64]
          ELSE IF neg /\ Negative(u.val) /\ u.val # Cutoff64
          THEN [err |-> "range", neg |-> TRUE, mag |-> Cutoff64]
          ELSE [err |-> "none", neg |-> neg, mag |-> u.val]

\* page, _ := strconv.Atoi(c.DefaultQuery("page", "1")); if page < 1 { page = 1 }
\* on the bits of the int
PageParam64(param) ==
  LET page == Atoi64(DefaultQuery(param, "1"))
  IN IF page.neg \/ page.mag = Limbs(0, 4) THEN Limbs(1, 4) ELSE page.mag

\* offset := (page - 1) * limit
Offset64(page, limit) == MulAdd(Sub1(page), limit, 0)

\* query strings of GET /memos and GET /memos/search: page values up to and
\* beyond the range of an int
PageStrings ==
  {{}, {"abc"}, {"-1"}, {"0"}, {"1"}, {"2"}, {"65537"}, {"4294967297"},
   {"18446744073709552"}, {"92233720368547759"}, {"184467440737095517"},
   {"9223372036854775807"}, {"9223372036854775808"}, {"-9223372036854775809"},
   {"99999999999999999999999"}, {"99999999999999999999999x"},
   {"-99999999999999999999999x"}, {"18446744073709551616x"}, {"12x"}}

LimitStrings == {{}, {"1"}, {"20"}, {"100"}, {"500"}, {"501"}}

InitOffset ==
  /\ EmptyStore
  /\ \E kind \in {"List", "Search"}, page \in PageStrings, limit \in LimitStrings :
       req = [r \in Reqs |->
                IF r = "r1"
                THEN [IdleReq EXCEPT !.pc = "query", !.kind = kind,
                                     !.arg = [page |-> page, limit |-> limit]]
                ELSE IdleReq]
  /\ last = {}
  /\ started = 0

\* MemoHandler.List: page and limit as parsed and validated, and the offset
\* MemoRepository.List computes from them
ListOffset(r) ==
  /\ req[r].pc = "query"
  /\ req[r].kind = "List"
  /\ LET page == PageParam64(req[r].arg.page)
         limit == ListLimit(req[r].arg.limit)
     IN Goto(r, [req[r] EXCEPT !.arg = [raw |-> req[r].arg, page |-> page, limit |-> limit,
                                        offset |-> Offset64(page, limit)]],
             "offset")
  /\ UNCHANGED <<users, memos, blobs, started, nextMemo, nextBlob>>

\* MemoHandler.Search and MemoRepository.SearchByText, the same
SearchOffset(r) ==
  /\ req[r].pc = "query"
  /\ req[r].kind = "Search"
  /\ LET page == PageParam64(req[r].arg.page)
         limit == SearchLimit(req[r].arg.limit)
     IN Goto(r, [req[r] EXCEPT !.arg = [raw |-> req[r].arg, page |-> page, limit |-> limit,
                                        offset |-> Offset64(page, limit)]],
             "offset")
  /\ UNCHANGED <<users, memos, blobs, started, nextMemo, nextBlob>>

NextOffset == \E r \in Reqs : ListOffset(r) \/ SearchOffset(r)

SpecOffset == InitOffset /\ [][NextOffset]_vars

Authenticated(x) == x.res # "unauthenticated"

Began == started' = started + 1

Moved(r) == req[r].pc # "idle" /\ req'[r] # req[r]

Status(x) == Deref(x.resp).status

MutableFields(row) == <<row.title, row.text, row.park_name>>

FixedFields(row) ==
  <<row.memo_id, row.user_id, row.user_name, row.audio_url, row.duration_seconds,
    row.latitude, row.longitude, row.location_accuracy, row.address, row.created_at>>

\* C1: a memo's title, text or park_name changes, or its row goes, only in a
\* step of an Update or Delete request of the memo's own user_id; an Update
\* or Delete that finds the memo of another user answers 403
\* AUTHORIZATION_ERROR and leaves the memo table and the object store alone.
C1_Ownership ==
  [][/\ \A m \in DOMAIN memos :
          (m \notin DOMAIN memos' \/ MutableFields(memos'[m]) # MutableFields(memos[m]))
            => \E r \in Reqs :
                 /\ Moved(r)
                 /\ req[r].kind \in {"Update", "Delete"}
                 /\ req[r].id = m
                 /\ req[r].uid = memos[m].user_id
     /\ \A x \in last' :
          (/\ Authenticated(x)
           /\ x.kind \in {"Update", "Delete"}
           /\ x.memo # {}
           /\ Deref(x.memo).user_id # x.uid)
            => /\ x.resp = {AuthorizationError}
               /\ Status(x) = 403
               /\ memos' = memos
               /\ blobs' = blobs]_vars

C1_Witness ==
  \E x \in last :
    /\ x.kind \in {"Update", "Delete"}
    /\ x.resp = {AuthorizationError}
    /\ x.id \in DOMAIN memos
    /\ memos[x.id].user_id # x.uid

\* C2: a Register whose pre-check found a row for its user_id answers 409
\* CONFLICT, and no step of any request changes a user row that exists.
C2_RegisterConflict ==
  [][/\ \A x \in last' :
          (/\ Authenticated(x)
           /\ x.kind = "Register"
           /\ x.user # {})
            => x.resp = {Conflict} /\ users' = users
     /\ \A u \in DOMAIN users : u \in DOMAIN users' /\ users'[u] = users[u]]_vars

C2_Witness ==
  \E x \in last :
    /\ x.kind = "Register"
    /\ x.resp = {Conflict}
    /\ x.uid \in DOMAIN users
    /\ users[x.uid].display_name # x.arg.display_name

\* C3: a Register whose insert hits the uniqueness constraint (its pre-check
\* ran before the other registration inserted) creates no row and answers
\* CONFLICT.
C3_RegisterRaceConflict ==
  [][\A x \in last' :
       (Authenticated(x) /\ x.kind = "Register" /\ x.res = "unique")
         => users' = users /\ x.resp = {Conflict}]_vars

\* C4: a Create whose insert failed after its upload succeeded adds no memo
\* row, attempts the deletion of exactly the object it uploaded, and answers
\* the insert failure (500 INTERNAL_ERROR) whether that deletion worked or
\* not.
C4_NoPartialCreate ==
  [][/\ \A r \in Reqs :
          (req[r].pc = "crt_insert" /\ req'[r].pc = "crt_cleanup") => memos' = memos
     /\ \A x \in last' :
          (/\ Authenticated(x)
           /\ x.kind = "Create"
           /\ x.res = "err"
           /\ x.arg.audio = "ok")
            => /\ memos' = memos
               /\ x.resp = {InternalError}
               /\ x.blobres \in {"ok", "err"}
               /\ UploadURL(FilePath(x.audioURL)) = x.audioURL
               /\ x.blobres = "ok" => blobs' = blobs \ {FilePath(x.audioURL)}
               /\ x.blobres = "err" => blobs' = blobs]_vars

C4_Witness ==
  \E x \in last :
    /\ x.kind = "Create"
    /\ x.res = "err"
    /\ x.arg.audio = "ok"
    /\ x.blobres = "err"
    /\ FilePath(x.audioURL) \in blobs
    /\ x.resp = {InternalError}

\* C5: every stored memo has latitude and longitude both NULL or both set.
C5_CoordinatesPaired ==
  \A m \in DOMAIN memos : (memos[m].latitude = {}) <=> (memos[m].longitude = {})

\* C6: a Delete whose lookup finds no row for the id answers 404 NOT_FOUND
\* and changes neither the memo table nor the object store; a Delete that
\* answers 204 removed the row in that very step.
C6_DeleteMissing ==
  [][\A x \in last' :
       (Authenticated(x) /\ x.kind = "Delete")
         => /\ (Began /\ x.id # BadId /\ x.res # "readerr" /\ x.id \notin DOMAIN memos)
                 => x.resp = {NotFound} /\ memos' = memos /\ blobs' = blobs
            /\ Status(x) = 204
                 => x.id \in DOMAIN memos /\ x.id \notin DOMAIN memos']_vars

C6_Witness ==
  \E x \in last :
    /\ x.kind = "Delete"
    /\ x.id # BadId
    /\ x.memo = {}
    /\ x.resp = {NotFound}

\* C7: a Delete whose row removal affected no row (the other Delete removed
\* it first) answers NOT_FOUND.
C7_DeleteRaceNotFound ==
  \A x \in last :
    (Authenticated(x) /\ x.kind = "Delete" /\ x.res = "norows") => x.resp = {NotFound}

\* C8: an Update answers 200 only with the record of an existing memo; when
\* the memo went away after the ownership check it answers NOT_FOUND.
C8_UpdateRaceNotFound ==
  \A x \in last :
    (Authenticated(x) /\ x.kind = "Update")
      => /\ Status(x) = 200 => Deref(x.resp).body # {}
         /\ (x.memo # {} /\ x.res \in {"ok", "norows"} /\ x.id \notin DOMAIN memos)
              => x.resp = {NotFound}

\* C9: an Update whose body names none of title, text, park_name writes
\* nothing and never succeeds; when it comes from the owner of an existing
\* memo (the checks that precede the field check passed) it answers 400
\* VALIDATION_ERROR.
C9_EmptyUpdate ==
  [][\A x \in last' :
       (/\ Authenticated(x)
        /\ x.kind = "Update"
        /\ x.id # BadId
        /\ DOMAIN x.arg.updates = {})
         => /\ memos' = memos
            /\ Status(x) >= 400
            /\ (x.memo # {} /\ Deref(x.memo).user_id = x.uid) => x.resp = {ValidationError}]_vars

C9_Witness ==
  \E x \in last :
    /\ Authenticated(x)
    /\ x.kind = "Update"
    /\ x.arg.bound
    /\ DOMAIN x.arg.updates = {}
    /\ x.memo # {}
    /\ x.memo = {memos[x.id]}
    /\ x.resp = {ValidationError}

\* C10: a step of an Update request changes, of the whole memo table, only
\* the columns its body supplied among title, text, park_name, and
\* updated_at, of the one row it addresses; it changes no user and no object.
C10_UpdateFrame ==
  [][\A r \in Reqs :
       (Moved(r) /\ req[r].kind = "Update")
         => /\ DOMAIN memos' = DOMAIN memos
            /\ users' = users
            /\ blobs' = blobs
            /\ \A m \in DOMAIN memos :
                 /\ m # req[r].id => memos'[m] = memos[m]
                 /\ FixedFields(memos'[m]) = FixedFields(memos[m])
                 /\ \A f \in {"title", "text", "park_name"} \ DOMAIN req[r].arg.updates :
                      memos'[m][f] = memos[m][f]]_vars

C10_Witness ==
  \E r \in Reqs :
    /\ req[r].pc = "upd_fetch"
    /\ req[r].res = "ok"
    /\ req[r].id \in DOMAIN memos
    /\ DOMAIN req[r].arg.updates = {"title"}
    /\ memos[req[r].id].title = {"T2"}
    /\ memos[req[r].id].park_name = {"p1"}
    /\ Deref(req[r].memo).title # {"T2"}
    /\ Cardinality(DOMAIN memos) = 2

\* C11 as stated: every successful UPDATE of an Update request leaves the
\* row's updated_at strictly greater than it was when the UPDATE was applied,
\* and leaves created_at as it was.
C11_StrictlyGreater ==
  [][\A r \in Reqs :
       (req[r].pc = "upd_exec" /\ req'[r].pc = "upd_fetch" /\ req'[r].res = "ok")
         => /\ memos'[req[r].id].updated_at > memos[req[r].id].updated_at
            /\ memos'[req[r].id].created_at = memos[req[r].id].created_at]_vars

\* C12: the total of a List or Search is the number of rows that match its
\* filter when it is counted, whatever page and limit are; the response's
\* total_items is that total, has_next holds exactly when page * limit is
\* below it, and has_previous exactly when page is above 1.
C12_Pagination ==
  [][/\ \A r \in Reqs :
          /\ (req[r].pc = "idle" /\ req'[r].pc = "list_page")
               => req'[r].arg.total =
                    Cardinality({m \in DOMAIN memos :
                                   MatchesFilters(memos[m], req'[r].arg.filters)})
          /\ (req[r].pc = "idle" /\ req'[r].pc = "search_page")
               => req'[r].arg.total =
                    Cardinality({m \in DOMAIN memos :
                                   TextMatches(memos[m].text, req'[r].arg.query)})
     /\ \A x \in last' :
          (x.kind \in {"List", "Search"} /\ x.res \in {"ok", "cut"})
            => LET pg == Deref(x.resp).body
                   p == Deref(pg).pagination
               IN /\ Status(x) = 200
                  /\ x.arg.page >= 1 /\ x.arg.limit >= 1
                  /\ p.total_items = x.arg.total
                  /\ p.has_next <=> (x.arg.page * x.arg.limit < p.total_items)
                  /\ p.has_previous <=> (x.arg.page > 1)]_vars

C12_Witness ==
  \E x \in last :
    /\ x.kind = "List"
    /\ x.res = "ok"
    /\ x.arg.page = 1
    /\ x.arg.limit = 1
    /\ Len(Deref(Deref(x.resp).body).memos) = 1
    /\ Deref(Deref(x.resp).body).pagination.total_items = 2
    /\ Deref(Deref(x.resp).body).pagination.has_next
    /\ Cardinality(ListMatching(x.arg.filters)) = 2

\* C13: the page a List returns and its total_items come from one state of
\* the memo table: the number of returned items is
\* min(limit, max(0, total_items - (page - 1) * limit)), never above
\* total_items.
C13_ListSnapshot ==
  \A x \in last :
    (x.kind = "List" /\ x.res = "ok")
      => LET body == Deref(Deref(x.resp).body)
             total == body.pagination.total_items
             rest == total - (x.arg.page - 1) * x.arg.limit
             expected == IF rest <= 0 THEN 0
                         ELSE IF rest < x.arg.limit THEN rest ELSE x.arg.limit
         IN /\ Len(body.memos) <= total
            /\ Len(body.memos) = expected

\* C14: a GetNearby with well-formed coordinates, answered by a reachable
\* database, returns the first limit memos, in non-decreasing distance, of
\* the memos that have both coordinates and lie within the radius: none
\* outside, none without coordinates, none omitted that is closer than a
\* returned one.
C14_NearbyExact ==
  \A x \in last :
    (/\ x.kind = "GetNearby"
     /\ x.arg.latitude.ok /\ x.arg.longitude.ok
     /\ x.res # "readerr")
      => /\ Status(x) = 200
         /\ LET rows == Deref(Deref(x.resp).body).memos
                ids == {rows[i].memo_id : i \in 1..Len(rows)}
                dist(m) == DistanceCm(x.arg.latitude.val, x.arg.longitude.val,
                                      Deref(memos[m].latitude), Deref(memos[m].longitude))
                near == {m \in DOMAIN memos :
                           /\ memos[m].latitude # {} /\ memos[m].longitude # {}
                           /\ dist(m) <= x.arg.radius * 100}
            IN /\ ids \subseteq near
               /\ Cardinality(ids) = Len(rows)
               /\ Len(rows) = IF Cardinality(near) < x.arg.limit
                              THEN Cardinality(near) ELSE x.arg.limit
               /\ \A i, j \in 1..Len(rows) :
                    i < j => rows[i].distance_cm <= rows[j].distance_cm
               /\ \A m \in near \ ids : \A i \in 1..Len(rows) :
                    rows[i].distance_cm <= dist(m)

\* the integer a raw parameter denotes, if any, among the integers in play
SampleInts == {0 - 1, 0, 1, 5, 7, 20, 100, 101, 200, 201, 500, 501, 50000, 50001}

IntOf(param) ==
  {n \in SampleInts : param = {ToString(n)} \/ (n >= 0 /\ param = {"+" \o ToString(n)})}

\* the value passed on: the parameter's integer when it has one in lo..hi,
\* the default otherwise
Passed(param, lo, hi, def) ==
  IF \E n \in IntOf(param) : lo <= n /\ n <= hi
  THEN CHOOSE n \in IntOf(param) : TRUE
  ELSE def

\* C15: what the request layer passes to the store is in range: List page
\* >= 1 and limit in 1..500, Search page >= 1 and limit in 1..100, GetNearby
\* radius in 0..50000 and limit in 1..200; a parameter that is an integer in
\* its range goes through unchanged; a missing, unparsable or out-of-range
\* limit or radius becomes the default 100, 20, 50 and 1000, and such a
\* page becomes 1.
C15_QueryRanges ==
  \A r \in Reqs :
    req[r].pc = "parsed"
      => LET a == req[r].arg
         IN /\ req[r].kind = "List"
                 => /\ a.page >= 1 /\ a.limit \in 1..500
                    /\ a.page = Passed(a.raw.page, 1, 50001, 1)
                    /\ a.limit = Passed(a.raw.limit, 1, 500, 100)
            /\ req[r].kind = "Search"
                 => /\ a.page >= 1 /\ a.limit \in 1..100
                    /\ a.page = Passed(a.raw.page, 1, 50001, 1)
                    /\ a.limit = Passed(a.raw.limit, 1, 100, 20)
            /\ req[r].kind = "GetNearby"
                 => /\ a.radius \in 0..50000 /\ a.limit \in 1..200
                    /\ a.radius = Passed(a.raw.radius_meters, 0, 50000, 1000)
                    /\ a.limit = Passed(a.raw.limit, 1, 200, 50)

C15_Witness ==
  \E r \in Reqs :
    /\ req[r].pc = "parsed"
    /\ req[r].kind = "GetNearby"
    /\ req[r].arg.raw.radius_meters = {"50001"}
    /\ req[r].arg.raw.limit = {"200"}
    /\ req[r].arg.radius = 1000
    /\ req[r].arg.limit = 200

\* C16: a Search whose q is empty or missing answers 400 VALIDATION_ERROR
\* without having queried the store, and no Search that has queried the
\* store carries an empty query.
C16_EmptySearch ==
  /\ \A x \in last :
       (x.kind = "Search" /\ Authenticated(x))
         => /\ x.arg.query = "" => x.resp = {ValidationError} /\ x.res = "none"
            /\ x.res \in {"counted", "readerr", "ok"} => x.arg.query # ""
  /\ \A r \in Reqs : req[r].pc = "search_page" => req[r].arg.query # ""

C16_Witness ==
  \E x \in last :
    /\ x.kind = "Search"
    /\ x.arg.query = ""
    /\ x.res = "none"
    /\ x.resp = {ValidationError}
    /\ DOMAIN memos # {}

\* C17: a request to a route of /api/v1 whose credential the middleware does
\* not verify answers 401 AUTHENTICATION_ERROR in its first step, without
\* its handler having run and with users, memos and objects unchanged; every
\* handler that runs has a verified subject, and the rows it inserts or
\* returns for "the user" are that subject's; only the health check answers
\* without a subject.
C17_AuthRequired ==
  [][/\ \A x \in last' :
          /\ ~Authenticated(x)
               => /\ x.kind \in Routes
                  /\ x.resp = {AuthenticationError}
                  /\ Status(x) = 401
                  /\ Began
                  /\ users' = users /\ memos' = memos /\ blobs' = blobs
                  /\ x.uid = "" /\ x.user = {} /\ x.memo = {}
                  /\ x.audioURL = "" /\ x.blobres = "none"
          /\ (Authenticated(x) /\ x.kind \in Routes) => x.uid \in UserIds
          /\ x.uid = "" => ~Authenticated(x) \/ (x.kind = "Health" /\ Status(x) = 200)
          /\ (x.kind = "GetMe" /\ Authenticated(x) /\ Status(x) = 200)
               => Deref(x.resp).body = {users[x.uid]}
     /\ \A r \in Reqs : req'[r].pc # "idle" => req'[r].uid \in UserIds
     /\ \A m \in DOMAIN memos' \ DOMAIN memos :
          \E r \in Reqs :
            Moved(r) /\ req[r].kind = "Create" /\ memos'[m].user_id = req[r].uid
     /\ \A u \in DOMAIN users' \ DOMAIN users :
          \E r \in Reqs :
            /\ Moved(r) /\ req[r].kind = "Register" /\ req[r].uid = u
            /\ users'[u].user_id = u /\ users'[u].email = FirebaseEmail(u)]_vars

C17_Witness ==
  \E x \in last :
    /\ ~Authenticated(x)
    /\ x.kind = "Delete"
    /\ x.resp = {AuthenticationError}
    /\ DOMAIN memos # {}
    /\ blobs # {}

\* C18: every memo's user_id is the user_id of an existing user row, in
\* every state: through the deletion of users with memos, and through
\* Create requests whose creator is deleted while they run.
C18_MemoOwnerExists ==
  \A m \in DOMAIN memos : memos[m].user_id \in DOMAIN users

C18_Witness ==
  /\ \E x \in last : x.kind = "UserDelete" /\ x.res = "ok" /\ x.uid = "u1"
  /\ "u1" \notin DOMAIN users
  /\ nextMemo > 1
  /\ \A m \in DOMAIN memos : memos[m].user_id # "u1"
  /\ \E r \in Reqs : req[r].pc = "crt_insert" /\ req[r].uid = "u1"

\* C19: a User Update changes display_name and department of the row of its
\* user_id and nothing else: no other column of that row, no other user
\* row, no memo, no object; it adds and removes no row.
C19_UserUpdateFrame ==
  [][\A x \in last' :
       x.kind = "UserUpdate"
         => /\ DOMAIN users' = DOMAIN users
            /\ memos' = memos
            /\ blobs' = blobs
            /\ \A u \in DOMAIN users :
                 /\ u # x.uid => users'[u] = users[u]
                 /\ \A f \in DOMAIN users[u] \ {"display_name", "department"} :
                      users'[u][f] = users[u][f]
            /\ (x.res = "ok" /\ x.uid \in DOMAIN users)
                 => /\ users'[x.uid].display_name = x.arg.display_name
                    /\ users'[x.uid].department = x.arg.department]_vars

C19_Witness ==
  \E x \in last :
    /\ x.kind = "UserUpdate"
    /\ x.res = "ok"
    /\ x.uid \in DOMAIN users
    /\ users[x.uid].display_name = "n3"
    /\ users[x.uid].email = FirebaseEmail(x.uid)
    /\ users[x.uid].email # x.arg.email
    /\ Cardinality(DOMAIN users) = 2

\* C20: a memo gets as user_name the display_name its Create request read
\* from the creator's row (the stored value at that lookup), and no later
\* step changes it: no User Update and no memo Update.
C20_UserNameSnapshot ==
  [][/\ \A r \in Reqs :
          (req[r].pc = "idle" /\ req'[r].pc = "crt_upload") => req'[r].user = {users[req'[r].uid]}
     /\ \A m \in DOMAIN memos' \ DOMAIN memos :
          \E r \in Reqs :
            /\ req[r].pc = "crt_insert" /\ Moved(r)
            /\ memos'[m].user_id = req[r].uid
            /\ memos'[m].user_name = Deref(req[r].user).display_name
     /\ \A m \in DOMAIN memos \cap DOMAIN memos' :
          memos'[m].user_name = memos[m].user_name]_vars

C20_Witness ==
  /\ \E x \in last : x.kind = "UserUpdate" /\ x.res = "ok" /\ x.uid = "u1"
  /\ 1 \in DOMAIN memos
  /\ "u1" \in DOMAIN users
  /\ memos[1].user_name = "n1"
  /\ memos[1].title = {"T2"}
  /\ users["u1"].display_name = "n3"

\* C20 as stated: the user_name of a memo is the creator's display_name as
\* it is stored when the row is inserted.
C20_NameAtInsert ==
  [][\A m \in DOMAIN memos' \ DOMAIN memos :
       memos'[m].user_name = users'[memos'[m].user_id].display_name]_vars

\* C21 as stated: after a successful Register the stored row of the user
\* carries the color derived from its user_id.  Register builds the user
\* without a color and the INSERT names no color column.
C21_ColorDerived ==
  [][\A x \in last' :
       x.kind = "Register" /\ Status(x) = 201
       => users'[x.uid].color = GenerateUserColor(x.uid)]_vars

\* C22: every stored memo has a non-empty audio_url, which is the placeholder
\* or the URL of an object name of its owner; a Create request that carried
\* an audio file stores the URL its own upload returned (the upload wrote
\* that object in the request's upload step), a request without audio file
\* stores the placeholder and uploads nothing; no later step changes the
\* audio_url of a row.
C22_AudioURL ==
  /\ [](\A m \in DOMAIN memos :
          /\ memos[m].audio_url # ""
          /\ \/ memos[m].audio_url = Placeholder
             \/ \E n \in 1..(nextBlob - 1) :
                  memos[m].audio_url = UploadURL(ObjectName(memos[m].user_id, n)))
  /\ [][/\ \A r \in Reqs :
             req[r].pc = "crt_upload" /\ req'[r].pc = "crt_insert"
             => IF req[r].arg.audio = "ok"
                THEN /\ req'[r].audioURL = UploadURL(ObjectName(req[r].uid, nextBlob))
                     /\ blobs' = blobs \cup {ObjectName(req[r].uid, nextBlob)}
                     /\ nextBlob' = nextBlob + 1
                ELSE req'[r].audioURL = Placeholder /\ blobs' = blobs
        /\ \A r \in Reqs :
             req[r].pc = "crt_insert" /\ req'[r].pc = "idle" /\ nextMemo' # nextMemo
             => /\ DOMAIN memos' = DOMAIN memos \cup {nextMemo}
                /\ memos'[nextMemo].audio_url = req[r].audioURL
        /\ \A m \in DOMAIN memos \cap DOMAIN memos' :
             memos'[m].audio_url = memos[m].audio_url]_vars

\* a Create with an audio file has just answered 201 and its row carries the
\* URL of the object it uploaded
C22_Witness ==
  \E x \in last :
    /\ x.kind = "Create" /\ Status(x) = 201 /\ x.arg.audio = "ok"
    /\ memos[x.id].audio_url = x.audioURL
    /\ x.audioURL # Placeholder
    /\ FilePath(x.audioURL) \in blobs

\* C23: the URL an upload returns is longer than the bucket URL prefix and
\* the path DeleteAudioFile cuts out of it is exactly the object name the
\* upload wrote; a DeleteAudioFile call removes no object other than the one
\* at the path cut out of its URL, and a URL not longer than the prefix is
\* rejected as invalid with the object store unchanged.
C23_RoundTrip ==
  [][/\ \A r \in Reqs :
          (/\ req[r].pc = "crt_upload" /\ req'[r] # req[r] /\ blobs' # blobs
           /\ \A x \in last' : x.res # "upstream")
          => LET url == IF req'[r].pc = "crt_insert" THEN req'[r].audioURL
                        ELSE (CHOOSE x \in last' : TRUE).audioURL
             IN /\ Len(url) > Len(UrlPrefix)
                /\ blobs' \ blobs = {FilePath(url)}
                /\ FilePath(url) = ObjectName(req[r].uid, nextBlob)
     /\ \A r \in Reqs :
          req[r].pc \in {"del_blob", "crt_cleanup"} /\ req'[r] # req[r]
          => LET url == IF req[r].pc = "del_blob" THEN Deref(req[r].memo).audio_url
                        ELSE req[r].audioURL
                 result == IF req[r].pc = "del_blob" THEN req'[r].blobres
                           ELSE (CHOOSE x \in last' : TRUE).blobres
             IN /\ blobs' \subseteq blobs
                /\ blobs \ blobs' \subseteq {FilePath(url)}
                /\ result = "ok" => blobs' = blobs \ {FilePath(url)} /\ blobs' # blobs
                /\ Len(url) <= Len(UrlPrefix) => result = "invalid" /\ blobs' = blobs]_vars

\* a Create whose insert failed has deleted, by its URL, the object it had
\* uploaded itself
C23_Witness ==
  \E x \in last :
    /\ x.kind = "Create" /\ x.res = "err" /\ x.blobres = "ok" /\ x.arg.audio = "ok"
    /\ Len(x.audioURL) > Len(UrlPrefix)
    /\ FilePath(x.audioURL) = ObjectName(x.uid, nextBlob - 1)
    /\ FilePath(x.audioURL) \notin blobs

\* C24: a Delete request that passed the ownership check first calls
\* DeleteAudioFile, leaving the memo rows alone in that step, and goes on to
\* the row removal whatever the call returned; the row removal and the
\* response do not look at that result: when the row is removed the request
\* ends 204, also after a failed or rejected blob deletion.
C24_BlobThenRow ==
  [][\A r \in Reqs :
       /\ req[r].pc = "idle" /\ req'[r].kind = "Delete" /\ req'[r].pc # "idle"
          => req'[r].pc = "del_blob" /\ req'[r].blobres = "none" /\ memos' = memos
       /\ req[r].pc = "del_blob" /\ req'[r] # req[r]
          => /\ memos' = memos
             /\ req'[r].pc = "del_row"
             /\ req'[r].blobres \in {"ok", "err", "invalid"}
       /\ req[r].pc = "del_row" /\ req'[r] # req[r]
          => /\ req[r].blobres \in {"ok", "err", "invalid"}
             /\ blobs' = blobs
             /\ \A x \in last' :
                  /\ x.blobres = req[r].blobres
                  /\ (req[r].id \in DOMAIN memos /\ req[r].id \notin DOMAIN memos')
                     <=> Status(x) = 204]_vars

\* a Delete has ended 204 with the row gone although its blob deletion failed
C24_Witness ==
  \E x \in last :
    /\ x.kind = "Delete" /\ x.res = "ok" /\ Status(x) = 204
    /\ x.blobres = "err"
    /\ x.id \notin DOMAIN memos
    /\ FilePath(Deref(x.memo).audio_url) \in blobs

\* C25 as stated: the memos of every List response (200) are the items at
\* the positions (page-1)*limit+1 .. page*limit of an arrangement, descending
\* in created_at, of exactly the rows that satisfy every supplied filter
\* (park_name equal, user_id equal, created_at >= start_date,
\* created_at <= end_date; the filters hold no empty value); beyond the last
\* row the page is empty.  The scanning loop never checks rows.Err(), so a
\* page query that fails while rows are delivered is answered 200 with the
\* rows read before the failure.
C25_ListPage ==
  \A x \in last :
    (x.kind = "List" /\ x.res \in {"ok", "cut"})
      => LET f == x.arg.filters
             has(k) == k \in DOMAIN f
             sat == {m \in DOMAIN memos :
                       /\ has("park_name") => memos[m].park_name = {f["park_name"]}
                       /\ has("user_id") => memos[m].user_id = f["user_id"]
                       /\ has("start_date")
                            => \E t \in IntOf({f["start_date"]}) : memos[m].created_at >= t
                       /\ has("end_date")
                            => \E t \in IntOf({f["end_date"]}) : memos[m].created_at <= t}
             n == Cardinality(sat)
             first == (x.arg.page - 1) * x.arg.limit + 1
             lastpos == IF x.arg.page * x.arg.limit < n THEN x.arg.page * x.arg.limit ELSE n
             rows == Deref(Deref(x.resp).body).memos
         IN /\ \A k \in DOMAIN f : f[k] # ""
            /\ Len(rows) = IF first > n THEN 0 ELSE lastpos - first + 1
            /\ \E o \in [1..n -> sat] :
                 /\ \A i, j \in 1..n : i # j => o[i] # o[j]
                 /\ \A i, j \in 1..n :
                      i < j => memos[o[i]].created_at >= memos[o[j]].created_at
                 /\ \A i \in 1..Len(rows) :
                      /\ rows[i].memo_id = o[first + i - 1]
                      /\ rows[i].text = memos[o[first + i - 1]].text
                      /\ rows[i].created_at = memos[o[first + i - 1]].created_at

\* C26: what a read answers does not depend on the caller: the response of a
\* GetByID is the one every user gets for the same id in the same store
\* (also for a memo of another user), and the memos of a List, Search or
\* GetNearby response are the rows scanned from a page of the rows selected
\* by the query parameters alone, whoever owns them and whoever asks.
C26_CallerIndependent ==
  \A x \in last :
    /\ x.kind = "GetByID"
       => \A u \in UserIds :
            Deref(x.resp) = GetByIDResponse(u, x.id, x.res # "readerr")
    /\ (x.kind = "List" /\ x.res \in {"ok", "cut"})
       => \E rows \in ListPageRows(x.arg.filters, x.arg.page, x.arg.limit) :
            [rows |-> Deref(Deref(x.resp).body).memos, res |-> x.res] \in ScanRows(rows)
    /\ (x.kind = "Search" /\ x.res \in {"ok", "cut"})
       => \E rows \in SearchPageRows(x.arg.query, x.arg.page, x.arg.limit) :
            [rows |-> Deref(Deref(x.resp).body).results, res |-> x.res] \in ScanRows(rows)
    /\ (x.kind = "GetNearby" /\ x.res \in {"ok", "cut"})
       => \E rows \in NearbyRows(x.arg.latitude.val, x.arg.longitude.val,
                                 x.arg.radius, x.arg.limit) :
            [rows |-> Deref(Deref(x.resp).body).memos, res |-> x.res] \in ScanRows(rows)

\* a user has just been answered a memo of another user by GetByID
C26_Witness ==
  \E x \in last :
    /\ x.kind = "GetByID" /\ Status(x) = 200
    /\ x.id \in DOMAIN memos
    /\ memos[x.id].user_id # x.uid
    /\ Deref(Deref(x.resp).body).memo = memos[x.id]

\* C27 as stated: a Create that ends in an error response after uploading an
\* audio object has attempted to delete that object.  The form is bound
\* after the upload and a binding failure returns at once.
C27_NoOrphanBlob ==
  \A x \in last :
    (x.kind = "Create" /\ Status(x) >= 400 /\ x.audioURL \notin {"", Placeholder})
      => x.blobres # "none"

\* C28 as stated, for the states in which no request is under way: every
\* memo row whose audio_url is not the placeholder refers to an object that
\* is in the store.  Delete removes the object before the row and keeps the
\* row when the row removal fails.
C28_NoDanglingAudio ==
  (\A r \in Reqs : req[r].pc = "idle")
    => \A m \in DOMAIN memos :
         memos[m].audio_url # Placeholder => FilePath(memos[m].audio_url) \in blobs

\* C29 as stated: every memo has updated_at >= created_at, with equality
\* exactly for the memos that were never successfully updated: a row is
\* inserted with updated_at = created_at, a successful UPDATE of a row leaves
\* its updated_at strictly above its created_at, which it does not change,
\* and every other step leaves both columns of the row as they are.
C29_UpdatedNotBeforeCreated ==
  /\ [](\A m \in DOMAIN memos : memos[m].updated_at >= memos[m].created_at)
  /\ [][\A m \in DOMAIN memos' :
          LET updated == \E r \in Reqs : /\ req[r].pc = "upd_exec" /\ req'[r].pc = "upd_fetch"
                                         /\ req'[r].res = "ok" /\ req[r].id = m
          IN /\ m \notin DOMAIN memos => memos'[m].updated_at = memos'[m].created_at
             /\ (m \in DOMAIN memos /\ updated)
                  => /\ memos'[m].updated_at > memos'[m].created_at
                     /\ memos'[m].created_at = memos[m].created_at
             /\ (m \in DOMAIN memos /\ ~updated)
                  => /\ memos'[m].updated_at = memos[m].updated_at
                     /\ memos'[m].created_at = memos[m].created_at]_vars

\* C30 as stated: the offset computed from the page and limit that the
\* request layer passes is not negative and is the exact product
\* (page - 1) * limit: the product taken in a wider integer has no bit
\* beyond the 63 value bits of the int.
C30_OffsetExact ==
  \A r \in Reqs :
    req[r].pc = "offset"
      => LET a == req[r].arg
             wide == [i \in 1..6 |-> IF i <= 4 THEN a.page[i] ELSE 0]
             exact == MulAdd(Sub1(wide), a.limit, 0)
         IN /\ ~Negative(a.offset)
            /\ exact = [i \in 1..6 |-> IF i <= 4 THEN a.offset[i] ELSE 0]

====
